---- MODULE Spec2Model ----
(***************************************************************************)
(* A model of gmt-python's library loading and data marshalling layer      *)
(* (gmt/clib/utils.py) and of the global session that gmt/__init__.py      *)
(* starts at import and ends at interpreter shutdown.                      *)
(*                                                                         *)
(* Python strings are TLA+ strings, a dict is a function from keys to      *)
(* values, an optional argument is a record with a `given` flag, and the   *)
(* outcome of a call is a record: either a returned value or a raised      *)
(* exception with its class and message.                                   *)
(***************************************************************************)
EXTENDS Integers, Sequences, FiniteSets, TLC

VARIABLES
    pc,         \* where the process is: importing, begun, running, ...
    hooks,      \* the functions registered with atexit, in registration order
    beginOk,    \* number of times _begin() has returned successfully
    endCalls,   \* number of times _end() has been executed
    platform,   \* sys.platform of the running interpreter
    environ,    \* os.environ of the running process
    heap,       \* the numpy arrays alive in the process, by object identity
    grid,       \* the xarray.DataArray the caller holds (or NoGrid)
    call        \* the last call of a utility function and its outcome

vars == <<pc, hooks, beginOk, endCalls, platform, environ, heap, grid, call>>

(***************************************************************************)
(* Values shared by all operations.                                        *)
(***************************************************************************)

\* Python's None (an argument left out, a function returning nothing), or a
\* given argument.
None == [given |-> FALSE]
Arg(x) == [given |-> TRUE, v |-> x]

\* A call returns a value or raises an exception of some class.
Return(v) == [ok |-> TRUE, value |-> v]
Raise(kind, msg) == [ok |-> FALSE, kind |-> kind, msg |-> msg]

NoCall == [op |-> "none"]
NoGrid == [dims |-> << >>]

\* str.startswith
StartsWith(s, prefix) ==
    /\ Len(s) >= Len(prefix)
    /\ SubSeq(s, 1, Len(prefix)) = prefix

\* str.endswith
EndsWith(s, suffix) ==
    /\ Len(s) >= Len(suffix)
    /\ SubSeq(s, Len(s) - Len(suffix) + 1, Len(s)) = suffix

\* `sub in s` for strings
Contains(s, sub) ==
    \E i \in 1..(Len(s) - Len(sub) + 1) : SubSeq(s, i, i + Len(sub) - 1) = sub

(***************************************************************************)
(* Platform Resolver: clib_extension                                       *)
(***************************************************************************)

\* The message of the GMTOSError that clib_extension raises; the code
\* formats sys.platform into it.
OSErrorMessage(os_name, sys_platform) ==
    "Operating system \"" \o sys_platform \o "\" not supported."

\* clib_extension accepting every name that starts with 'darwin'.
clib_extension_prefix(os_name_arg, sys_platform) ==
    LET os_name == IF ~os_name_arg.given THEN sys_platform ELSE os_name_arg.v
    IN  IF StartsWith(os_name, "linux") THEN Return("so")
        ELSE IF StartsWith(os_name, "darwin") THEN Return("dylib")
        ELSE Raise("GMTOSError", OSErrorMessage(os_name, sys_platform))

clib_extension(os_name_arg, sys_platform) ==
    LET os_name == IF ~os_name_arg.given THEN sys_platform ELSE os_name_arg.v
    IN  IF StartsWith(os_name, "linux") THEN Return("so")
        ELSE IF os_name = "darwin" THEN Return("dylib")
        ELSE Raise("GMTOSError", OSErrorMessage(os_name, sys_platform))

(***************************************************************************)
(* Library Locator: get_clib_path                                          *)
(***************************************************************************)

\* os.path.join(a, b) of posixpath for two components.
PathJoin(a, b) ==
    IF StartsWith(b, "/") THEN b
    ELSE IF a = "" \/ EndsWith(a, "/") THEN a \o b
    ELSE a \o "/" \o b

\* get_clib_path appending the file name to the directory without os.path.join.
get_clib_path_concat(env_arg, os_environ, sys_platform) ==
    LET ext == clib_extension(None, sys_platform)
        env == IF ~env_arg.given THEN os_environ ELSE env_arg.v
    IN  IF ~ext.ok THEN [ret |-> ext, env |-> env]
        ELSE LET libname == "libgmt" \o "." \o ext.value
             IN  IF "GMT_LIBRARY_PATH" \in DOMAIN env
                 THEN [ret |-> Return(env["GMT_LIBRARY_PATH"] \o libname),
                       env |-> env]
                 ELSE [ret |-> Return(libname), env |-> env]

\* The outcome of get_clib_path together with the mapping as the call leaves it.
get_clib_path(env_arg, os_environ, sys_platform) ==
    LET ext == clib_extension(None, sys_platform)
        env == IF ~env_arg.given THEN os_environ ELSE env_arg.v
    IN  IF ~ext.ok THEN [ret |-> ext, env |-> env]
        ELSE LET libname == "libgmt" \o "." \o ext.value
             IN  IF "GMT_LIBRARY_PATH" \in DOMAIN env
                 THEN [ret |-> Return(PathJoin(env["GMT_LIBRARY_PATH"], libname)),
                       env |-> env]
                 ELSE [ret |-> Return(libname), env |-> env]

(***************************************************************************)
(* Symbol Validator: check_libgmt                                          *)
(***************************************************************************)

\* The names check_libgmt looks up, in the order of its list.
functions == <<"Create_Session", "Get_Enum", "Call_Module", "Destroy_Session">>

\* hasattr on a ctypes.CDLL: whether the library exports the symbol.
hasattr(libgmt, name) == name \in libgmt.symbols

CLibErrorMessage(func) ==
    "Error loading libgmt." \o " " \o "Couldn't access function GMT_" \o func \o "."

RECURSIVE CheckFunctions(_, _)
CheckFunctions(libgmt, funcs) ==
    IF funcs = << >> THEN Return(None)
    ELSE IF ~hasattr(libgmt, "GMT_" \o Head(funcs))
         THEN Raise("GMTCLibError", CLibErrorMessage(Head(funcs)))
         ELSE CheckFunctions(libgmt, Tail(funcs))

\* check_libgmt going through the list from its end.
check_libgmt_backwards(libgmt) ==
    CheckFunctions(libgmt,
        <<"Destroy_Session", "Call_Module", "Get_Enum", "Create_Session">>)

check_libgmt(libgmt) == CheckFunctions(libgmt, functions)

(***************************************************************************)
(* Library Loader: load_libgmt                                             *)
(***************************************************************************)

\* Whether `except base` catches an exception of class `kind`.  The classes
\* of gmt.exceptions are the four separate error kinds of the package; none
\* of them is the platform's OSError.
IsInstance(kind, base) == kind = base

NotFoundMessage(libpath, err) ==
    "Couldn't find the GMT shared library '" \o libpath \o "'." \o "\n"
    \o "Original error message:" \o "\n" \o err

\* cdll is what ctypes.CDLL(libpath) does: it returns a handle or raises OSError.
load_libgmt(env_arg, os_environ, sys_platform, cdll) ==
    LET libpath == get_clib_path(env_arg, os_environ, sys_platform).ret
    IN  IF ~libpath.ok THEN libpath
        ELSE LET checked == IF cdll.ok THEN check_libgmt(cdll.value) ELSE cdll
                 tried == IF ~checked.ok THEN checked ELSE Return(cdll.value)
             IN  IF ~tried.ok /\ IsInstance(tried.kind, "OSError")
                 THEN Raise("GMTCLibNotFoundError",
                            NotFoundMessage(libpath.value, tried.msg))
                 ELSE tried

(***************************************************************************)
(* numpy arrays.  An array object is a view of a buffer: the buffer's      *)
(* elements, the offset of the first element, the shape and the strides    *)
(* (in elements).  The heap is the sequence of array objects; an object's  *)
(* identity is its position in the heap.                                   *)
(***************************************************************************)

RECURSIVE Product(_)
Product(shape) ==
    IF shape = << >> THEN 1 ELSE Head(shape) * Product(Tail(shape))

\* array.size
Size(a) == Product(a.shape)

\* The strides of a C-ordered (row-major) array of this shape.
CStrides(shape) ==
    [i \in DOMAIN shape |-> Product(SubSeq(shape, i + 1, Len(shape)))]

\* The strides of a Fortran-ordered (column-major) array of this shape.
FStrides(shape) ==
    [i \in DOMAIN shape |-> Product(SubSeq(shape, 1, i - 1))]

\* The buffer position (from 0) of the k-th element (from 0) in row-major
\* order of the indices; i is the dimension being unravelled.
RECURSIVE BufferIndex(_, _, _)
BufferIndex(a, k, i) ==
    IF i = 0 THEN a.offset
    ELSE (k % a.shape[i]) * a.strides[i] + BufferIndex(a, k \div a.shape[i], i - 1)

\* The elements of the array in row-major order of the indices.
Values(a) ==
    [k \in 1..Size(a) |-> a.base[BufferIndex(a, k - 1, Len(a.shape)) + 1]]

\* array.flags.c_contiguous as numpy computes it from shape and strides.
RECURSIVE StridesAreC(_, _, _)
StridesAreC(a, i, sd) ==
    IF i = 0 THEN TRUE
    ELSE IF a.shape[i] # 1 /\ a.strides[i] # sd THEN FALSE
    ELSE StridesAreC(a, i - 1, sd * a.shape[i])

c_contiguous(a) ==
    IF \E i \in DOMAIN a.shape : a.shape[i] = 0 THEN TRUE
    ELSE StridesAreC(a, Len(a.shape), 1)

\* array.copy(order='C'): a new buffer holding the elements in row-major order.
CopyC(a) ==
    [base |-> Values(a), offset |-> 0, shape |-> a.shape,
     strides |-> CStrides(a.shape)]

\* array[:]: a new array object viewing the same elements.
FullSlice(a) == a

\* data[:, 0]: the first column of a 2-D array, a 1-D view.
FirstColumn(a) ==
    [base |-> a.base, offset |-> a.offset, shape |-> <<a.shape[1]>>,
     strides |-> <<a.strides[1]>>]

(***************************************************************************)
(* Array Normalizer: as_c_contiguous                                       *)
(***************************************************************************)

\* as_c_contiguous copying whatever it is given.
as_c_contiguous_always_copy(h, array) ==
    [heap |-> Append(h, CopyC(h[array])), ret |-> Return(Len(h) + 1)]

\* The heap after the call and what the call returns (an object identity).
as_c_contiguous(h, array) ==
    IF ~c_contiguous(h[array])
    THEN [heap |-> Append(h, CopyC(h[array])), ret |-> Return(Len(h) + 1)]
    ELSE [heap |-> h, ret |-> Return(array)]

(***************************************************************************)
(* Grid Extractor: dataarray_to_matrix                                     *)
(***************************************************************************)

Abs(x) == IF x < 0 THEN -x ELSE x

\* coord[1:] - coord[0:-1]
Diffs(coord) == [i \in 1..(Len(coord) - 1) |-> coord[i + 1] - coord[i]]

\* np.allclose(a, b) with numpy's default tolerances, for integer-valued a
\* and b: |a[i] - b| <= 1e-8 + 1e-5 * |b|.  For integers this is
\* 100000 * |a[i] - b| <= |b|, written with a division so that no product
\* leaves the machine integers.
allclose(a, b) ==
    \A i \in DOMAIN a : Abs(a[i] - b) <= Abs(b) \div 100000

RECURSIVE ArrayMin(_)
ArrayMin(coord) ==
    IF Len(coord) = 1 THEN coord[1]
    ELSE LET m == ArrayMin(Tail(coord))
         IN  IF Head(coord) < m THEN Head(coord) ELSE m

RECURSIVE ArrayMax(_)
ArrayMax(coord) ==
    IF Len(coord) = 1 THEN coord[1]
    ELSE LET m == ArrayMax(Tail(coord))
         IN  IF Head(coord) > m THEN Head(coord) ELSE m

\* The dimensions in their own order, rows first.
UnreversedDims(dims) == dims

\* grid.dims[::-1]
ReversedDims(dims) == [i \in DOMAIN dims |-> dims[Len(dims) + 1 - i]]

DimensionsMessage(n) ==
    "Invalid number of grid dimensions '" \o ToString(n) \o "'. Must be 2."

SpacingMessage(dim) ==
    "Grid appears to have irregular spacing in the '" \o dim \o "' dimension."

\* The loop over the dimensions: region and inc as built so far, or the
\* exception that ends the loop.
RECURSIVE RegionAndInc(_, _, _, _)
RegionAndInc(g, dims, region, inc) ==
    IF dims = << >> THEN Return([region |-> region, inc |-> inc])
    ELSE LET dim == Head(dims)
             coord == g.coords[dim]
             coord_incs == Diffs(coord)
         IN  IF coord_incs = << >>
             THEN Raise("IndexError",
                        "index 0 is out of bounds for axis 0 with size 0")
             ELSE LET coord_inc == coord_incs[1]
                  IN  IF ~allclose(coord_incs, coord_inc)
                      THEN Raise("GMTInvalidInput", SpacingMessage(dim))
                      ELSE RegionAndInc(g, Tail(dims),
                               region \o <<ArrayMin(coord), ArrayMax(coord)>>,
                               Append(inc, coord_inc))

\* The heap after the call and what the call returns or raises.
dataarray_to_matrix(h, g) ==
    IF Len(g.dims) # 2
    THEN [heap |-> h,
          ret |-> Raise("GMTInvalidInput", DimensionsMessage(Len(g.dims)))]
    ELSE LET looped == RegionAndInc(g, ReversedDims(g.dims), << >>, << >>)
         IN  IF ~looped.ok THEN [heap |-> h, ret |-> looped]
             ELSE LET sliced == Append(h, FullSlice(h[g.values]))
                      made == as_c_contiguous(sliced, Len(sliced))
                  IN  [heap |-> made.heap,
                       ret |-> Return([matrix |-> made.ret.value,
                                       region |-> looped.value.region,
                                       inc |-> looped.value.inc])]

(***************************************************************************)
(* Inputs of the loader operations.                                        *)
(***************************************************************************)

Platforms == {"linux", "linux2", "darwin", "win32"}

OsNames == Platforms \cup {"darwin2", "lin"}

LibDirs == {"/opt/gmt", "/opt/gmt/", ""}

EmptyEnv == << >>

Envs ==
    {EmptyEnv, [k \in {"HOME"} |-> "/root"]}
    \cup {[k \in {"GMT_LIBRARY_PATH"} |-> d] : d \in LibDirs}
    \cup {[k \in {"GMT_LIBRARY_PATH", "HOME"} |->
              IF k = "HOME" THEN "/root" ELSE d] : d \in LibDirs}

RequiredSymbols == {"GMT_" \o functions[i] : i \in DOMAIN functions}

Symbols == RequiredSymbols \cup {"GMT_Open_VirtualFile"}

Handles == {[symbols |-> S] : S \in SUBSET Symbols}

CDLLOutcomes ==
    {Return(h) : h \in Handles}
    \cup {Raise("OSError", "libgmt.so: cannot open shared object file")}

OptArgs(S) == {None} \cup {Arg(x) : x \in S}

(***************************************************************************)
(* The global session: gmt/__init__.py                                     *)
(***************************************************************************)

\* An import that goes on to register _end although _begin() raised.
BeginIgnoringFailure ==
    /\ pc = "importing"
    /\ \E ok \in BOOLEAN :
         /\ pc' = "begun"
         /\ beginOk' = IF ok THEN beginOk + 1 ELSE beginOk
    /\ UNCHANGED <<hooks, endCalls, platform, environ, heap, grid, call>>

\* _begin() at import.  When it raises, the import fails and the line that
\* registers _end is never reached.
Begin ==
    /\ pc = "importing"
    /\ \E ok \in BOOLEAN :
         IF ok THEN /\ pc' = "begun"
                    /\ beginOk' = beginOk + 1
               ELSE /\ pc' = "import_failed"
                    /\ beginOk' = beginOk
    /\ UNCHANGED <<hooks, endCalls, platform, environ, heap, grid, call>>

\* _atexit.register(_end)
Register ==
    /\ pc = "begun"
    /\ hooks' = Append(hooks, "_end")
    /\ pc' = "running"
    /\ UNCHANGED <<beginOk, endCalls, platform, environ, heap, grid, call>>

\* The interpreter starts its normal shutdown (end of the script, sys.exit,
\* an uncaught exception, a failed import).
Shutdown ==
    /\ pc \in {"running", "import_failed"}
    /\ pc' = "exiting"
    /\ UNCHANGED <<hooks, beginOk, endCalls, platform, environ, heap, grid, call>>

\* The process ends without finalisation (os._exit, a fatal signal).
Kill ==
    /\ pc \in {"importing", "begun", "running", "import_failed"}
    /\ pc' = "killed"
    /\ UNCHANGED <<hooks, beginOk, endCalls, platform, environ, heap, grid, call>>

\* atexit runs the registered functions, last registered first, each once.
RunExitHook ==
    /\ pc = "exiting"
    /\ hooks # << >>
    /\ endCalls' = IF hooks[Len(hooks)] = "_end" THEN endCalls + 1 ELSE endCalls
    /\ hooks' = SubSeq(hooks, 1, Len(hooks) - 1)
    /\ UNCHANGED <<pc, beginOk, platform, environ, heap, grid, call>>

Exit ==
    /\ pc = "exiting"
    /\ hooks = << >>
    /\ pc' = "exited"
    /\ UNCHANGED <<hooks, beginOk, endCalls, platform, environ, heap, grid, call>>

(***************************************************************************)
(* Calls of the loader operations by the running program.                  *)
(***************************************************************************)

CallClibExtension ==
    /\ pc = "running"
    /\ \E os_name \in OptArgs(OsNames) :
         call' = [op |-> "clib_extension", os_name |-> os_name,
                  ret |-> clib_extension(os_name, platform)]
    /\ UNCHANGED <<pc, hooks, beginOk, endCalls, platform, environ, heap, grid>>

CallGetClibPath ==
    /\ pc = "running"
    /\ \E env \in OptArgs(Envs) :
         LET out == get_clib_path(env, environ, platform)
         IN  /\ call' = [op |-> "get_clib_path", env |-> env,
                         env_before |-> IF env.given THEN env.v ELSE environ,
                         env_after |-> out.env, ret |-> out.ret]
             /\ environ' = IF env.given THEN environ ELSE out.env
    /\ UNCHANGED <<pc, hooks, beginOk, endCalls, platform, heap, grid>>

CallCheckLibgmt ==
    /\ pc = "running"
    /\ \E libgmt \in Handles :
         call' = [op |-> "check_libgmt", libgmt |-> libgmt,
                  ret |-> check_libgmt(libgmt)]
    /\ UNCHANGED <<pc, hooks, beginOk, endCalls, platform, environ, heap, grid>>

CallLoadLibgmt ==
    /\ pc = "running"
    /\ \E env \in OptArgs(Envs), cdll \in CDLLOutcomes :
         call' = [op |-> "load_libgmt", env |-> env, cdll |-> cdll,
                  ret |-> load_libgmt(env, environ, platform, cdll)]
    /\ UNCHANGED <<pc, hooks, beginOk, endCalls, platform, environ, heap, grid>>

(***************************************************************************)
(* The process: import gmt, use the loader operations, shut down.          *)
(***************************************************************************)

Init ==
    /\ pc = "importing"
    /\ hooks = << >>
    /\ beginOk = 0
    /\ endCalls = 0
    /\ platform \in Platforms
    /\ environ \in {EmptyEnv, [k \in {"GMT_LIBRARY_PATH"} |-> "/opt/gmt"]}
    /\ heap = << >>
    /\ grid = NoGrid
    /\ call = NoCall

Next ==
    \/ Begin
    \/ Register
    \/ CallClibExtension
    \/ CallGetClibPath
    \/ CallCheckLibgmt
    \/ CallLoadLibgmt
    \/ Shutdown
    \/ Kill
    \/ RunExitHook
    \/ Exit

Spec == Init /\ [][Next]_vars

\* Normal shutdown always completes: the interpreter runs every registered
\* exit function and then exits.
LiveSpec == Spec /\ WF_vars(RunExitHook) /\ WF_vars(Exit)

(***************************************************************************)
(* The Array Normalizer on the arrays of a running program.                *)
(***************************************************************************)

\* The largest extent of a dimension of the arrays the program creates.
MaxDim == 2

\* The largest number of array objects alive at once.
MaxObjs == 3

\* np.array(...) of this shape: a C-ordered array owning its buffer.
NewArray(shape) ==
    [base |-> [k \in 1..Product(shape) |-> 10 * k], offset |-> 0,
     shape |-> shape, strides |-> CStrides(shape)]

\* np.asfortranarray(...) of this shape.
NewFortranArray(shape) ==
    [base |-> [k \in 1..Product(shape) |-> 10 * k], offset |-> 0,
     shape |-> shape, strides |-> FStrides(shape)]

Shapes ==
    {<<n>> : n \in 0..MaxDim} \cup {<<r, c>> : r \in 0..MaxDim, c \in 0..MaxDim}

\* The program after `import gmt` has succeeded.
Imported ==
    /\ pc = "running"
    /\ hooks = <<"_end">>
    /\ beginOk = 1
    /\ endCalls = 0
    /\ platform = "linux"
    /\ environ = EmptyEnv

ArrayInit ==
    /\ Imported
    /\ heap \in {<<NewArray(shape)>> : shape \in Shapes}
    /\ grid = NoGrid
    /\ call = NoCall

\* x = data[:, 0]
TakeColumn ==
    /\ Len(heap) < MaxObjs
    /\ \E a \in DOMAIN heap :
         /\ Len(heap[a].shape) = 2
         /\ heap[a].shape[2] > 0
         /\ heap' = Append(heap, FirstColumn(heap[a]))
    /\ UNCHANGED <<pc, hooks, beginOk, endCalls, platform, environ, grid, call>>

\* x = data.T
Transpose ==
    /\ Len(heap) < MaxObjs
    /\ \E a \in DOMAIN heap :
         heap' = Append(heap, [heap[a] EXCEPT
                                  !.shape = ReversedDims(heap[a].shape),
                                  !.strides = ReversedDims(heap[a].strides)])
    /\ UNCHANGED <<pc, hooks, beginOk, endCalls, platform, environ, grid, call>>

CallAsCContiguous ==
    /\ Len(heap) < MaxObjs
    /\ \E a \in DOMAIN heap :
         LET out == as_c_contiguous(heap, a)
         IN  /\ heap' = out.heap
             /\ call' = [op |-> "as_c_contiguous", array |-> a,
                         heap_before |-> heap, heap_after |-> out.heap,
                         ret |-> out.ret]
    /\ UNCHANGED <<pc, hooks, beginOk, endCalls, platform, environ, grid>>

ArrayNext ==
    \/ TakeColumn
    \/ Transpose
    \/ CallAsCContiguous

ArraySpec == ArrayInit /\ [][ArrayNext]_vars

(***************************************************************************)
(* The Grid Extractor on the grids a running program holds.                *)
(***************************************************************************)

\* The largest number of coordinate values of a grid axis.
MaxAxisLen == 3

\* The steps between consecutive coordinate values.
Steps == {-1, 1, 100000, 100001}

RECURSIVE StepSeqs(_)
StepSeqs(n) ==
    IF n = 0 THEN {<< >>}
    ELSE {Append(s, d) : s \in StepSeqs(n - 1), d \in Steps}

\* The coordinate values that start at 0 and advance by the given steps.
RECURSIVE CoordOf(_)
CoordOf(steps) ==
    IF steps = << >> THEN <<0>>
    ELSE LET c == CoordOf(SubSeq(steps, 1, Len(steps) - 1))
         IN  Append(c, c[Len(c)] + steps[Len(steps)])

\* The coordinate arrays of an axis, of 1..MaxAxisLen values.
Axes ==
    UNION {{CoordOf(s) : s \in StepSeqs(n)} : n \in 0..(MaxAxisLen - 1)}

\* A DataArray: its dimension names, its coordinate arrays, and the
\* identity of the array holding its values.
DataArray(dims, coords) == [dims |-> dims, coords |-> coords, values |-> 1]

Grids2D ==
    {DataArray(<<"lat", "lon">>,
               [d \in {"lat", "lon"} |-> IF d = "lat" THEN rows ELSE cols]) :
        rows \in Axes, cols \in Axes}

GridsOther ==
    {DataArray(<<"lon">>, [d \in {"lon"} |-> <<0, 1>>]),
     DataArray(<<"time", "lat", "lon">>,
               [d \in {"time", "lat", "lon"} |-> <<0, 1>>])}

\* The shape of a grid's values: one extent per dimension.
GridShape(g) == [i \in DOMAIN g.dims |-> Len(g.coords[g.dims[i]])]

GridInit ==
    /\ Imported
    /\ grid \in Grids2D \cup GridsOther
    /\ heap \in {<<NewArray(GridShape(grid))>>, <<NewFortranArray(GridShape(grid))>>}
    /\ call = NoCall

CallDataarrayToMatrix ==
    /\ Len(heap) + 2 <= MaxObjs
    /\ LET out == dataarray_to_matrix(heap, grid)
       IN  /\ heap' = out.heap
           /\ call' = [op |-> "dataarray_to_matrix", grid |-> grid,
                       heap_before |-> heap, heap_after |-> out.heap,
                       ret |-> out.ret]
    /\ UNCHANGED <<pc, hooks, beginOk, endCalls, platform, environ, grid>>

GridNext == CallDataarrayToMatrix

GridSpec == GridInit /\ [][GridNext]_vars

(***************************************************************************)
(* Properties of the loader operations and of the session (Spec, LiveSpec) *)
(***************************************************************************)

\* C1: load_libgmt either returns the handle or raises GMTCLibNotFoundError,
\* whatever opening the library does and whatever symbols it exports (on a
\* platform whose library extension is known).
C1_LoadRaisesOnlyNotFound ==
    (call.op = "load_libgmt" /\ clib_extension(None, platform).ok) =>
        \/ call.ret.ok /\ call.cdll.ok /\ call.ret.value = call.cdll.value
        \/ ~call.ret.ok /\ call.ret.kind = "GMTCLibNotFoundError"

\* C2: clib_extension called with a name that neither starts with 'linux'
\* nor is 'darwin' raises GMTOSError, and the message names (in quotes) the
\* name that was passed.
C2_UnsupportedNameIsNamed ==
    (/\ call.op = "clib_extension"
     /\ call.os_name.given
     /\ ~StartsWith(call.os_name.v, "linux")
     /\ call.os_name.v # "darwin") =>
        /\ ~call.ret.ok
        /\ call.ret.kind = "GMTOSError"
        /\ Contains(call.ret.msg, "\"" \o call.os_name.v \o "\"")

\* The required symbols in the order the claim C3 gives.
RequiredInOrder ==
    <<"GMT_Create_Session", "GMT_Get_Enum", "GMT_Call_Module",
      "GMT_Destroy_Session">>

MissingFrom(libgmt) ==
    {i \in DOMAIN RequiredInOrder : RequiredInOrder[i] \notin libgmt.symbols}

\* C3: check_libgmt raises GMTCLibError naming exactly the first missing
\* required symbol of the fixed order, and returns None when none is missing.
C3_FirstMissingSymbol ==
    call.op = "check_libgmt" =>
        LET missing == MissingFrom(call.libgmt)
        IN  IF missing = {} THEN call.ret = Return(None)
            ELSE LET first == CHOOSE i \in missing : \A j \in missing : i <= j
                 IN  /\ ~call.ret.ok
                     /\ call.ret.kind = "GMTCLibError"
                     /\ Contains(call.ret.msg, RequiredInOrder[first])
                     /\ \A j \in missing \ {first} :
                            ~Contains(call.ret.msg, RequiredInOrder[j])

\* A library missing several required symbols, the first of them not being
\* the first of the list, has been checked.
C3_Witness ==
    /\ call.op = "check_libgmt"
    /\ MissingFrom(call.libgmt) = {2, 4}
    /\ ~call.ret.ok
    /\ Contains(call.ret.msg, "GMT_Get_Enum")

\* The session is started once, _end is registered only after _begin has
\* returned, and _end runs at most once and never without a _begin.
LifecycleSafe ==
    /\ beginOk <= 1
    /\ endCalls <= 1
    /\ (hooks # << >> => beginOk = 1)
    /\ (endCalls > 0 => beginOk = 1)
    /\ (pc \in {"running"} => beginOk = 1 /\ hooks = <<"_end">>)

\* C6: the session lifecycle is safe in every state, and every run in which
\* _begin succeeded and the interpreter shuts down normally runs _end.
C6_SessionLifecycle ==
    /\ []LifecycleSafe
    /\ ((pc = "exiting" /\ beginOk = 1) ~> (endCalls = 1))

\* A process that began the session, shut down normally and ran _end.
C6_Witness == pc = "exited" /\ beginOk = 1 /\ endCalls = 1 /\ hooks = << >>

\* The extension for the running platform, as claim C8 refers to it.
PlatformExt == clib_extension(None, platform).value

\* C8: on a supported platform get_clib_path returns the directory under
\* GMT_LIBRARY_PATH joined with 'libgmt.<ext>' (a single '/' between them
\* unless the directory is empty or already ends with one), or the bare
\* file name when the mapping has no such key; the mapping is left as it was.
C8_ClibPath ==
    (call.op = "get_clib_path" /\ clib_extension(None, platform).ok) =>
        LET env == call.env_before
            filename == "libgmt." \o PlatformExt
        IN  /\ call.ret.ok
            /\ call.env_after = env
            /\ (~call.env.given => environ = env)
            /\ IF "GMT_LIBRARY_PATH" \in DOMAIN env
               THEN LET dir == env["GMT_LIBRARY_PATH"]
                        sep == IF dir = "" \/ EndsWith(dir, "/") THEN "" ELSE "/"
                    IN  /\ StartsWith(call.ret.value, dir)
                        /\ EndsWith(call.ret.value, filename)
                        /\ Len(call.ret.value) = Len(dir) + Len(sep) + Len(filename)
                        /\ SubSeq(call.ret.value, Len(dir) + 1, Len(dir) + Len(sep)) = sep
               ELSE call.ret.value = filename

\* The path of the spec's example has been built from a mapping passed in.
C8_Witness ==
    /\ call.op = "get_clib_path"
    /\ call.env.given
    /\ "GMT_LIBRARY_PATH" \in DOMAIN call.env.v
    /\ call.env.v["GMT_LIBRARY_PATH"] = "/opt/gmt"
    /\ call.ret.ok
    /\ call.ret.value \in {"/opt/gmt/libgmt.so", "/opt/gmt/libgmt.dylib"}

RowMajorInMemory(a) ==
    \A k \in 0..(Size(a) - 1) : BufferIndex(a, k, Len(a.shape)) = a.offset + k

\* C7: as_c_contiguous returns the very array it was given when that array
\* is C-contiguous, and otherwise a new C-contiguous array of the same shape
\* and elements; the argument is left as it was, the result is always
\* C-contiguous, and as_c_contiguous of the result is the result.
C7_AsCContiguous ==
    call.op = "as_c_contiguous" =>
        LET before == call.heap_before
            after == call.heap_after
            a == call.array
            r == call.ret.value
            again == as_c_contiguous(after, r)
        IN  /\ call.ret.ok
            /\ r \in DOMAIN after
            /\ \A x \in DOMAIN before : after[x] = before[x]
            /\ IF RowMajorInMemory(before[a])
               THEN r = a /\ after = before
               ELSE /\ r \notin DOMAIN before
                    /\ Len(after) = Len(before) + 1
                    /\ after[r].shape = before[a].shape
                    /\ Values(after[r]) = Values(before[a])
            /\ RowMajorInMemory(after[r])
            /\ again.ret = Return(r)
            /\ again.heap = after

\* A view whose elements are not in row-major order in memory has been
\* normalised into a copy.
C7_Witness ==
    /\ call.op = "as_c_contiguous"
    /\ ~RowMajorInMemory(call.heap_before[call.array])
    /\ Size(call.heap_before[call.array]) >= 2
    /\ call.ret.value # call.array
    /\ Values(call.heap_after[call.ret.value]) =
           Values(call.heap_before[call.array])

(***************************************************************************)
(* Properties of the Grid Extractor (GridSpec)                             *)
(***************************************************************************)

\* An axis with a spacing: at least two values, every step the same.
Uniform(coord) ==
    /\ Len(coord) >= 2
    /\ \A i \in 1..(Len(coord) - 1) : coord[i + 1] - coord[i] = coord[2] - coord[1]

Least(coord) ==
    CHOOSE m \in {coord[i] : i \in DOMAIN coord} :
        \A i \in DOMAIN coord : m <= coord[i]

Greatest(coord) ==
    CHOOSE m \in {coord[i] : i \in DOMAIN coord} :
        \A i \in DOMAIN coord : m >= coord[i]

\* C4: for a two-dimensional grid with uniformly spaced axes the call
\* returns region = [dim2.min, dim2.max, dim1.min, dim1.max] and
\* inc = [dim2.spacing, dim1.spacing], dim1 being the rows and dim2 the columns.
C4_RegionAndIncOrder ==
    (/\ call.op = "dataarray_to_matrix"
     /\ Len(call.grid.dims) = 2
     /\ Uniform(call.grid.coords[call.grid.dims[1]])
     /\ Uniform(call.grid.coords[call.grid.dims[2]])) =>
        LET dim1 == call.grid.coords[call.grid.dims[1]]
            dim2 == call.grid.coords[call.grid.dims[2]]
        IN  /\ call.ret.ok
            /\ call.ret.value.region =
                   <<Least(dim2), Greatest(dim2), Least(dim1), Greatest(dim1)>>
            /\ call.ret.value.inc = <<dim2[2] - dim2[1], dim1[2] - dim1[1]>>
            /\ Len(call.ret.value.region) = 4
            /\ Len(call.ret.value.inc) = 2

\* A grid whose rows ascend by 1 and whose columns descend by 1 has been
\* extracted.
C4_Witness ==
    /\ call.op = "dataarray_to_matrix"
    /\ call.grid.dims = <<"lat", "lon">>
    /\ call.grid.coords["lat"] = <<0, 1, 2>>
    /\ call.grid.coords["lon"] = <<0, -1, -2>>
    /\ call.ret.ok
    /\ call.ret.value.region = <<-2, 0, 0, 2>>
    /\ call.ret.value.inc = <<-1, 1>>

\* The spacing of the axis is not uniform, as the code measures it: some
\* step is not close to the first step.
NonUniform(coord) ==
    /\ Len(coord) >= 2
    /\ ~allclose(Diffs(coord), Diffs(coord)[1])

\* C5: for a two-dimensional grid with a non-uniform axis the call raises
\* GMTInvalidInput naming a non-uniform dimension, the column dimension when
\* both are non-uniform.
C5_NonUniformIsInvalidInput ==
    (/\ call.op = "dataarray_to_matrix"
     /\ Len(call.grid.dims) = 2
     /\ \E d \in 1..2 : NonUniform(call.grid.coords[call.grid.dims[d]])) =>
        /\ ~call.ret.ok
        /\ call.ret.kind = "GMTInvalidInput"
        /\ \E d \in 1..2 :
             /\ NonUniform(call.grid.coords[call.grid.dims[d]])
             /\ Contains(call.ret.msg, "'" \o call.grid.dims[d] \o "'")
        /\ NonUniform(call.grid.coords[call.grid.dims[2]]) =>
               Contains(call.ret.msg, "'" \o call.grid.dims[2] \o "'")

\* C10: dataarray_to_matrix returns the whole triple (matrix, region, inc)
\* or raises GMTInvalidInput, for grids of any number of dimensions and
\* axes of any length.
C10_OnlyInvalidInput ==
    call.op = "dataarray_to_matrix" =>
        \/ /\ call.ret.ok
           /\ call.ret.value.matrix \in DOMAIN call.heap_after
           /\ Len(call.ret.value.region) = 4
           /\ Len(call.ret.value.inc) = 2
        \/ /\ ~call.ret.ok
           /\ call.ret.kind = "GMTInvalidInput"

====
